---- MODULE Spec2Model ----
(***************************************************************************)
(* The Polkadot transaction pool (polkadot/transaction-pool/src/lib.rs)    *)
(* and its network adapter (polkadot/service/src/components.rs).           *)
(*                                                                         *)
(* Option<T> values are sequences of length at most one: <<>> is None and  *)
(* <<v>> is Some(v).  Byte strings are sequences of small naturals.        *)
(***************************************************************************)
EXTENDS Integers, Sequences, FiniteSets, TLC

\* ------------------------------------------------------------------ bounds
\* Number of accounts known to the chain (Alice = 0, Bob = 1, ...).
NumAccounts == 2
\* Number of account-index addresses that clients use.
NumIndices == 2
\* Bounded::max_value() of the nonce type Index, scaled down from 2^32 - 1.
MaxIndex == 2
\* Highest block number against which extrinsics are verified and swept.
MaxBlock == 1
\* Options::max_count of the pool.
MaxCount == 2
\* Options::max_mem_usage of the pool, in encoded bytes.
MaxBytes == 10

Accounts == 0..(NumAccounts - 1)
Indices == 0..(NumIndices - 1)
Nonces == 0..MaxIndex
Blocks == 0..MaxBlock

None == <<>>
Some(v) == <<v>>
IsSome(o) == Len(o) = 1
Unwrap(o) == o[1]

\* ------------------------------------------------------------ extrinsics
\* RawAddress::Id(account) or RawAddress::Index(i).
Id(a) == [tag |-> "Id", v |-> a]
Index(i) == [tag |-> "Index", v |-> i]
Addresses == {Id(a) : a \in Accounts} \cup {Index(i) : i \in Indices}

\* An UncheckedExtrinsic: the signed address, the nonce and the signature.
\* signature = None is the all-zero signature of an inherent; Some(k) is a
\* signature made with the key of account k over the payload whose signer
\* is k (tests::uxt).
UncheckedExtrinsics ==
    [signed : Addresses, index : Nonces,
     signature : {None} \cup {Some(k) : k \in Accounts}]

\* First byte of an encoded address that announces a full account id.
IdTag == NumIndices

\* Slicable::encode of an address: an index is one byte, an id is the tag
\* byte followed by the (longer) account id.
EncodeAddress(addr) ==
    IF addr.tag = "Index" THEN <<addr.v>> ELSE <<IdTag, addr.v, addr.v>>

\* Slicable::encode of the signature: zero for an inherent.
EncodeSignature(sig) == IF IsSome(sig) THEN <<Unwrap(sig) + 1>> ELSE <<0>>

\* Body of an encoded extrinsic, without its length prefix.
EncodeBody(uxt) ==
    EncodeAddress(uxt.signed) \o <<uxt.index>> \o EncodeSignature(uxt.signature)

\* Slicable::encode of an UncheckedExtrinsic: it shares its representation
\* with Vec<u8>, a length prefix followed by the body.
Encode(uxt) == <<Len(EncodeBody(uxt))>> \o EncodeBody(uxt)

\* Slicable::encode of a Vec<u8>.
EncodeVec(bytes) == <<Len(bytes)>> \o bytes

\* Slicable::decode of an address at the head of a byte string:
\* None, or Some of the address and the number of bytes read.
DecodeAddress(body) ==
    IF Len(body) = 0 THEN None
    ELSE IF body[1] < IdTag THEN Some([addr |-> Index(body[1]), used |-> 1])
    ELSE IF body[1] = IdTag /\ Len(body) >= 3 /\ body[2] = body[3]
              /\ body[2] \in Accounts
         THEN Some([addr |-> Id(body[2]), used |-> 3])
    ELSE None

\* UncheckedExtrinsic::decode of a length-prefixed byte string.
Decode(encoded) ==
    IF Len(encoded) = 0 \/ Len(encoded) - 1 < encoded[1] THEN None
    ELSE LET body == SubSeq(encoded, 2, 1 + encoded[1])
             a == DecodeAddress(body)
         IN IF ~IsSome(a) THEN None
            ELSE LET k == Unwrap(a).used
                 IN IF Len(body) # k + 2 THEN None
                    ELSE IF body[k + 1] > MaxIndex \/ body[k + 2] > NumAccounts
                    THEN None
                    ELSE Some([signed |-> Unwrap(a).addr,
                               index |-> body[k + 1],
                               signature |-> IF body[k + 2] = 0 THEN None
                                             ELSE Some(body[k + 2] - 1)])

\* UncheckedExtrinsic::is_signed.
IsSigned(uxt) == IsSome(uxt.signature)

RECURSIVE Digits(_, _)
Digits(bytes, acc) ==
    IF Len(bytes) = 0 THEN acc
    ELSE Digits(Tail(bytes), acc * (NumAccounts + NumIndices + MaxIndex + 8) + bytes[1] + 1)

\* BlakeTwo256::hash of an encoding, collision free on the encodings used.
BlakeTwo256(bytes) == Digits(bytes, 0)

\* --------------------------------------------------------------- chain api
\* PolkadotApi::index as the test api answers it: the account's base nonce
\* plus the block number.
ChainIndex(at, account) == (IF account = 0 THEN 1 ELSE 0) + at

\* PolkadotApi::lookup as the test api answers it: an id resolves to itself,
\* an index resolves to the account it is shifted to at this block, if any.
ChainLookup(at, address) ==
    IF address.tag = "Id" THEN Some(address.v)
    ELSE IF address.v + at \in Accounts THEN Some(address.v + at)
    ELSE None

\* Answers of the chain client during one operation: each call may fail
\* transiently.  index_fails holds the accounts whose nonce query fails.
\* index_fails_clone holds the accounts whose nonce query fails when a clone
\* of the evaluator asks.
ApiAnswers ==
    [info_fails : BOOLEAN, check_id_fails : BOOLEAN, lookup_fails : BOOLEAN,
     index_fails : SUBSET Accounts, index_fails_clone : SUBSET Accounts]

ApiOk ==
    [info_fails |-> FALSE, check_id_fails |-> FALSE, lookup_fails |-> FALSE,
     index_fails |-> {}, index_fails_clone |-> {}]

\* ---------------------------------------------------------------- verifier
NO_ACCOUNT == "Account not found."

\* The lookup closure of verify_transaction.
Lookup(api, at_block, address) ==
    IF api.lookup_fails THEN [ok |-> FALSE, err |-> "API error."]
    ELSE LET r == ChainLookup(at_block, address)
         IN IF IsSome(r) THEN [ok |-> TRUE, val |-> Unwrap(r)]
            ELSE [ok |-> FALSE, err |-> NO_ACCOUNT]

\* Checkable::check of the runtime: resolve the signed address, then verify
\* the signature against the payload signed by the resolved account.
Check(uxt, looked) ==
    IF ~looked.ok THEN [ok |-> FALSE, err |-> looked.err]
    ELSE IF uxt.signature = Some(looked.val)
         THEN [ok |-> TRUE, val |-> [signed |-> looked.val, index |-> uxt.index]]
         ELSE [ok |-> FALSE, err |-> "bad signature in extrinsic"]

\* The record verify_transaction returns.
Verified(uxt, inner) ==
    [original |-> uxt, inner |-> inner,
     sender |-> IF IsSome(inner) THEN Some(Unwrap(inner).signed) ELSE None,
     hash |-> BlakeTwo256(Encode(uxt)), encoded_size |-> Len(Encode(uxt))]

\* verify_transaction without the rejection of inherents.
VerifyTransaction_NoInherentCheck(api, at_block, uxt) ==
    LET checked == Check(uxt, Lookup(api, at_block, uxt.signed))
    IN IF ~checked.ok /\ checked.err # NO_ACCOUNT
       THEN [ok |-> FALSE, err |-> checked.err]
       ELSE [ok |-> TRUE,
             val |-> Verified(uxt, IF checked.ok THEN Some(checked.val) ELSE None)]

\* verify_transaction failing on an unknown account as on any other error.
VerifyTransaction_NoAccountFails(api, at_block, uxt) ==
    IF ~IsSigned(uxt) THEN [ok |-> FALSE, err |-> "IsInherent"]
    ELSE LET checked == Check(uxt, Lookup(api, at_block, uxt.signed))
         IN IF ~checked.ok THEN [ok |-> FALSE, err |-> checked.err]
            ELSE [ok |-> TRUE, val |-> Verified(uxt, Some(checked.val))]

\* verify_transaction hashing the verified record, resolved sender included,
\* instead of the encoded extrinsic alone.
VerifyTransaction_HashesSender(api, at_block, uxt) ==
    IF ~IsSigned(uxt) THEN [ok |-> FALSE, err |-> "IsInherent"]
    ELSE LET checked == Check(uxt, Lookup(api, at_block, uxt.signed))
         IN IF ~checked.ok /\ checked.err # NO_ACCOUNT
            THEN [ok |-> FALSE, err |-> checked.err]
            ELSE LET inner == IF checked.ok THEN Some(checked.val) ELSE None
                     sender == IF IsSome(inner) THEN Some(Unwrap(inner).signed)
                               ELSE None
                 IN [ok |-> TRUE,
                     val |-> [original |-> uxt, inner |-> inner,
                              sender |-> sender,
                              hash |-> BlakeTwo256(Encode(uxt) \o sender),
                              encoded_size |-> Len(Encode(uxt))]]

\* verify_transaction filing a record of an unknown account under the
\* account of its signature.
VerifyTransaction_SenderOfSignature(api, at_block, uxt) ==
    IF ~IsSigned(uxt) THEN [ok |-> FALSE, err |-> "IsInherent"]
    ELSE LET checked == Check(uxt, Lookup(api, at_block, uxt.signed))
         IN IF ~checked.ok /\ checked.err # NO_ACCOUNT
            THEN [ok |-> FALSE, err |-> checked.err]
            ELSE LET inner == IF checked.ok THEN Some(checked.val) ELSE None
                 IN [ok |-> TRUE,
                     val |-> [original |-> uxt, inner |-> inner,
                              sender |-> IF IsSome(inner)
                                         THEN Some(Unwrap(inner).signed)
                                         ELSE uxt.signature,
                              hash |-> BlakeTwo256(Encode(uxt)),
                              encoded_size |-> Len(Encode(uxt))]]

\* Verifier::verify_transaction.
VerifyTransaction(api, at_block, uxt) ==
    IF ~IsSigned(uxt) THEN [ok |-> FALSE, err |-> "IsInherent"]
    ELSE LET encoded_size == Len(Encode(uxt))
             hash == BlakeTwo256(Encode(uxt))
             checked == Check(uxt, Lookup(api, at_block, uxt.signed))
         IN IF ~checked.ok /\ checked.err # NO_ACCOUNT
            THEN [ok |-> FALSE, err |-> checked.err]
            ELSE LET inner == IF checked.ok THEN Some(checked.val) ELSE None
                     sender == IF IsSome(inner) THEN Some(Unwrap(inner).signed)
                               ELSE None
                 IN [ok |-> TRUE,
                     val |-> [original |-> uxt, inner |-> inner,
                              sender |-> sender, hash |-> hash,
                              encoded_size |-> encoded_size]]

\* ------------------------------------------------- VerifiedTransaction
\* VerifiedTransaction::index.
TxIndex(xt) == xt.original.index

\* VerifiedTransaction::is_fully_verified.
IsFullyVerified(xt) == IsSome(xt.inner)

\* mem_usage reporting no memory at all.
MemUsage_Zero(xt) == 0

\* txpool::VerifiedTransaction::mem_usage.
MemUsage(xt) == xt.encoded_size

\* ----------------------------------------------------------------- scoring
\* Scoring::compare: "Less", "Equal" or "Greater".
Compare(old, other) ==
    IF TxIndex(old) < TxIndex(other) THEN "Less"
    ELSE IF TxIndex(old) = TxIndex(other) THEN "Equal" ELSE "Greater"

\* choose keeping both transactions whatever their nonces.
Choose_AlwaysInsert(old, new) == "InsertNew"

\* choose turning down a new transaction whose nonce is taken, whether the
\* old one is fully verified or not.
Choose_RejectEqual(old, new) ==
    IF IsFullyVerified(old) /\ ~IsFullyVerified(new) THEN "AssertFailed"
    ELSE IF TxIndex(old) = TxIndex(new) THEN "RejectNew" ELSE "InsertNew"

\* Scoring::choose.  AssertFailed stands for the panic of the assertion.
Choose(old, new) ==
    IF IsFullyVerified(old)
    THEN IF ~IsFullyVerified(new) THEN "AssertFailed"
         ELSE IF TxIndex(old) = TxIndex(new) THEN "RejectNew" ELSE "InsertNew"
    ELSE "InsertNew"

\* update_scores giving every transaction the same score.
Score_Flat(xt) == 1

\* Scoring::update_scores, for one transaction of the slice.
Score(xt) == IF ~IsFullyVerified(xt) THEN 0 ELSE 1

\* should_replace letting every resident transaction be evicted.
ShouldReplace_Always(old, new) == TRUE

\* Scoring::should_replace.
ShouldReplace(old, new) == ~IsFullyVerified(old)

\* --------------------------------------------------------------- readiness
\* Ready::create.  known_nonces is the set of cached (account, nonce) pairs.
ReadyCreate(at, api) == [at_block |-> at, api |-> api, known_nonces |-> {}]

\* Ready::clone.
ReadyClone(ready) ==
    [at_block |-> ready.at_block,
     api |-> [ready.api EXCEPT !.index_fails = ready.api.index_fails_clone],
     known_nonces |-> ready.known_nonces]

\* u32::saturating_add(1) on the nonce type.
SaturatingInc(n) == IF n >= MaxIndex THEN MaxIndex ELSE n + 1

\* known_nonces.entry(sender).or_insert_with(..): the cached next nonce of
\* the sender, seeded from the chain, or with the maximum if the chain fails.
NextIndex(ready, sender) ==
    LET cached == {p \in ready.known_nonces : p[1] = sender}
    IN IF cached # {} THEN (CHOOSE p \in cached : TRUE)[2]
       ELSE IF sender \in ready.api.index_fails THEN MaxIndex
       ELSE ChainIndex(ready.at_block, sender)

\* The evaluator with the cached next nonce of the sender set to a value.
WithNextIndex(ready, sender, value) ==
    [ready EXCEPT !.known_nonces =
        {p \in ready.known_nonces : p[1] # sender} \cup {<<sender, value>>}]

\* is_ready taking a nonce ahead of the expected one for Ready.
IsReady_GreaterReady(ready, xt) ==
    IF ~IsSome(xt.sender) THEN [result |-> "Future", ready |-> ready]
    ELSE LET sender == Unwrap(xt.sender)
             next_index == NextIndex(ready, sender)
         IN [result |-> IF TxIndex(xt) >= next_index THEN "Ready" ELSE "Stale",
             ready |-> WithNextIndex(ready, sender, SaturatingInc(next_index))]

\* is_ready keeping a nonce behind the expected one as Future.
IsReady_NeverStale(ready, xt) ==
    IF ~IsSome(xt.sender) THEN [result |-> "Future", ready |-> ready]
    ELSE LET sender == Unwrap(xt.sender)
             next_index == NextIndex(ready, sender)
         IN [result |-> IF TxIndex(xt) = next_index THEN "Ready" ELSE "Future",
             ready |-> WithNextIndex(ready, sender, SaturatingInc(next_index))]

\* is_ready forgetting to increment the cached next nonce.
IsReady_NoIncrement(ready, xt) ==
    IF ~IsSome(xt.sender) THEN [result |-> "Future", ready |-> ready]
    ELSE LET sender == Unwrap(xt.sender)
             next_index == NextIndex(ready, sender)
         IN [result |-> IF TxIndex(xt) > next_index THEN "Future"
                        ELSE IF TxIndex(xt) = next_index THEN "Ready"
                        ELSE "Stale",
             ready |-> WithNextIndex(ready, sender, next_index)]

\* is_ready judging a transaction without a sender as Stale.
IsReady_PartialStale(ready, xt) ==
    IF ~IsSome(xt.sender) THEN [result |-> "Stale", ready |-> ready]
    ELSE LET sender == Unwrap(xt.sender)
             next_index == NextIndex(ready, sender)
         IN [result |-> IF TxIndex(xt) > next_index THEN "Future"
                        ELSE IF TxIndex(xt) = next_index THEN "Ready"
                        ELSE "Stale",
             ready |-> WithNextIndex(ready, sender, SaturatingInc(next_index))]

\* is_ready holding back every transaction that was addressed by index.
IsReady_IndexFuture(ready, xt) ==
    IF ~IsSome(xt.sender) \/ xt.original.signed.tag = "Index"
    THEN [result |-> "Future", ready |-> ready]
    ELSE LET sender == Unwrap(xt.sender)
             next_index == NextIndex(ready, sender)
         IN [result |-> IF TxIndex(xt) > next_index THEN "Future"
                        ELSE IF TxIndex(xt) = next_index THEN "Ready"
                        ELSE "Stale",
             ready |-> WithNextIndex(ready, sender, SaturatingInc(next_index))]

\* Ready::is_ready: the verdict and the evaluator after the call.
IsReady(ready, xt) ==
    IF ~IsSome(xt.sender) THEN [result |-> "Future", ready |-> ready]
    ELSE LET sender == Unwrap(xt.sender)
             next_index == NextIndex(ready, sender)
             result == IF TxIndex(xt) > next_index THEN "Future"
                       ELSE IF TxIndex(xt) = next_index THEN "Ready"
                       ELSE "Stale"
         IN [result |-> result,
             ready |-> WithNextIndex(ready, sender, SaturatingInc(next_index))]

\* ------------------------------------------------------------- pool engine
\* The engine behind TransactionPool::inner: for every sender, the queue of
\* its transactions in ascending nonce order, and the insertion order of
\* the resident transactions (oldest first), which stands for their
\* insertion ids.
Senders == {None} \cup {Some(a) : a \in Accounts}

EmptyPool == [transactions |-> [s \in Senders |-> <<>>], order |-> <<>>]

Range(seq) == {seq[i] : i \in 1..Len(seq)}

AllTransactions(st) == UNION {Range(st.transactions[s]) : s \in Senders}

\* Keys of the by-hash map of the engine.
ByHash(st) == {xt.hash : xt \in AllTransactions(st)}

RECURSIVE SumMem(_)
SumMem(seq) == IF Len(seq) = 0 THEN 0 ELSE MemUsage(seq[1]) + SumMem(Tail(seq))

RECURSIVE SumOver(_, _)
SumOver(keys, st) ==
    IF keys = {} THEN 0
    ELSE LET s == CHOOSE k \in keys : TRUE
         IN SumMem(st.transactions[s]) + SumOver(keys \ {s}, st)

\* The mem_usage counter of the engine.
PoolMemUsage(st) == SumOver(Senders, st)

\* Number of resident transactions.
PoolCount(st) == Len(st.order)

RemoveAt(seq, i) == SubSeq(seq, 1, i - 1) \o SubSeq(seq, i + 1, Len(seq))

InsertAt(seq, i, v) == SubSeq(seq, 1, i - 1) \o <<v>> \o SubSeq(seq, i, Len(seq))

\* Position of the transaction with this hash in a sender's queue, 0 if none.
PositionOf(seq, hash) ==
    IF \E i \in 1..Len(seq) : seq[i].hash = hash
    THEN CHOOSE i \in 1..Len(seq) :
             seq[i].hash = hash /\ \A j \in 1..(i - 1) : seq[j].hash # hash
    ELSE 0

\* Rank of a transaction's insertion id among the residents.
InsertionRank(st, hash) == PositionOf([i \in 1..Len(st.order) |-> [hash |-> st.order[i]]], hash)

\* Removal of one transaction from its sender's queue and from the maps.
RemoveTransaction(st, xt) ==
    LET q == st.transactions[xt.sender]
        i == PositionOf(q, xt.hash)
        o == InsertionRank(st, xt.hash)
    IN IF i = 0 THEN st
       ELSE [transactions |-> [st.transactions EXCEPT ![xt.sender] = RemoveAt(q, i)],
             order |-> RemoveAt(st.order, o)]

\* The worst transaction of the pool: among the last transactions of the
\* senders' queues, the one with the lowest score, the newest on a tie.
WorstTransaction(st) ==
    LET lasts == {st.transactions[s][Len(st.transactions[s])] :
                      s \in {k \in Senders : st.transactions[k] # <<>>}}
    IN CHOOSE w \in lasts : \A o \in lasts :
           \/ Score(w) < Score(o)
           \/ Score(w) = Score(o)
              /\ InsertionRank(st, w.hash) >= InsertionRank(st, o.hash)

\* Pool::remove_worst: evicts the worst transaction if the scoring allows
\* the new one to replace it.
RemoveWorst(st, new) ==
    IF AllTransactions(st) = {} THEN [ok |-> FALSE, st |-> st]
    ELSE LET old == WorstTransaction(st)
         IN IF ShouldReplace(old, new)
            THEN [ok |-> TRUE, st |-> RemoveTransaction(st, old)]
            ELSE [ok |-> FALSE, st |-> st]

\* The capacity loops of Pool::import: evict until the new transaction fits
\* under max_count and max_mem_usage, or fail.
RECURSIVE MakeRoom(_, _)
MakeRoom(st, new) ==
    IF PoolCount(st) + 1 > MaxCount \/ PoolMemUsage(st) + MemUsage(new) > MaxBytes
    THEN LET r == RemoveWorst(st, new)
         IN IF r.ok THEN MakeRoom(r.st, new) ELSE r
    ELSE [ok |-> TRUE, st |-> st]

\* The positions slice::binary_search_by may return for the new transaction
\* in a sender's queue: any position holding an equal nonce, or else the
\* insertion point.
SearchPositions(q, new) ==
    LET equal == {i \in 1..Len(q) : Compare(q[i], new) = "Equal"}
    IN IF equal # {} THEN equal
       ELSE {1 + Cardinality({i \in 1..Len(q) : Compare(q[i], new) = "Less"})}

\* Transactions::add: the possible outcomes of adding to a sender's queue.
AddOutcomes(q, new) ==
    {IF index = Len(q) + 1 THEN [kind |-> "Ok", q |-> Append(q, new), old |-> None]
     ELSE LET choice == Choose(q[index], new)
          IN IF choice = "InsertNew"
             THEN [kind |-> "Ok", q |-> InsertAt(q, index, new), old |-> None]
             ELSE IF choice = "ReplaceOld"
             THEN [kind |-> "Replaced", q |-> [q EXCEPT ![index] = new],
                   old |-> Some(q[index])]
             ELSE IF choice = "RejectNew"
             THEN [kind |-> "TooCheap", q |-> q, old |-> Some(q[index])]
             ELSE [kind |-> "Panic", q |-> q, old |-> Some(q[index])]
     : index \in SearchPositions(q, new)}

\* Result<Hash> values.
Ok(hashes) == [ok |-> TRUE, val |-> hashes, err |-> ""]
Err(kind, hashes) == [ok |-> FALSE, val |-> hashes, err |-> kind]

\* Pool::import: the possible outcomes [st, ret] of importing one verified
\* transaction.
ImportOutcomes(st, new) ==
    IF new.hash \in ByHash(st)
    THEN {[st |-> st, ret |-> Err("AlreadyImported", <<new.hash>>)]}
    ELSE LET room == MakeRoom(st, new)
         IN IF ~room.ok
            THEN {[st |-> room.st, ret |-> Err("CapacityExceeded", <<>>)]}
            ELSE {IF a.kind = "Ok"
                  THEN [st |-> [transactions |->
                                   [room.st.transactions EXCEPT ![new.sender] = a.q],
                                order |-> Append(room.st.order, new.hash)],
                        ret |-> Ok(<<new.hash>>)]
                  ELSE IF a.kind = "Replaced"
                  THEN [st |-> [transactions |->
                                   [room.st.transactions EXCEPT ![new.sender] = a.q],
                                order |-> Append(RemoveAt(room.st.order,
                                             InsertionRank(room.st, Unwrap(a.old).hash)),
                                             new.hash)],
                        ret |-> Ok(<<new.hash>>)]
                  ELSE IF a.kind = "TooCheap"
                  THEN [st |-> room.st,
                        ret |-> Err("AlreadyImported", <<Unwrap(a.old).hash>>)]
                  ELSE [st |-> room.st, ret |-> Err("Panic", <<>>)]
                  : a \in AddOutcomes(room.st.transactions[new.sender], new)}

\* Transactions::cull: the number of leading transactions of a sender's
\* queue that the evaluator judges Stale, and the evaluator afterwards.
RECURSIVE CountStalled(_, _, _)
CountStalled(q, n, ready) ==
    IF n = Len(q) THEN [n |-> n, ready |-> ready]
    ELSE LET r == IsReady(ready, q[n + 1])
         IN IF r.result = "Stale" THEN CountStalled(q, n + 1, r.ready)
            ELSE [n |-> n, ready |-> r.ready]

\* Pool::cull over all senders: drops the stalled head of every queue.
RECURSIVE Cull(_, _, _)
Cull(st, senders, ready) ==
    IF senders = {} THEN st
    ELSE LET s == CHOOSE k \in senders : TRUE
             q == st.transactions[s]
             c == CountStalled(q, 0, ready)
             gone == {q[i].hash : i \in 1..c.n}
             kept == [transactions |->
                         [st.transactions EXCEPT ![s] = SubSeq(q, c.n + 1, Len(q))],
                      order |-> SelectSeq(st.order, LAMBDA h : h \notin gone)]
         IN Cull(kept, senders \ {s}, c.ready)

\* The best candidate of the pending iterator: the highest score, the oldest
\* on a tie.  A candidate is a sender and a position in its queue.
BestCandidate(st, best) ==
    CHOOSE c \in best : \A o \in best :
        LET x == st.transactions[c[1]][c[2]]
            y == st.transactions[o[1]][o[2]]
        IN \/ Score(x) > Score(y)
           \/ Score(x) = Score(y)
              /\ InsertionRank(st, x.hash) <= InsertionRank(st, y.hash)

\* PendingIterator::next, repeated until the iterator is exhausted: the
\* transactions yielded, in order.
RECURSIVE PendingFrom(_, _, _, _)
PendingFrom(st, best, ready, yielded) ==
    IF best = {} THEN yielded
    ELSE LET c == BestCandidate(st, best)
             q == st.transactions[c[1]]
             r == IsReady(ready, q[c[2]])
         IN IF r.result = "Ready"
            THEN PendingFrom(st,
                     (best \ {c}) \cup
                         (IF c[2] < Len(q) THEN {<<c[1], c[2] + 1>>} ELSE {}),
                     r.ready, Append(yielded, q[c[2]]))
            ELSE PendingFrom(st, best \ {c}, r.ready, yielded)

\* Pool::pending: iterates from the first transaction of every sender.
Pending(st, ready) ==
    PendingFrom(st, {<<s, 1>> : s \in {k \in Senders : st.transactions[k] # <<>>}},
                ready, <<>>)

\* cull_and_get_pending taking the transactions it yields out of the pool.
CullAndGetPending_Draining(st, ready) ==
    LET culled == Cull(st, Senders, ReadyClone(ready))
        pending == Pending(culled, ready)
        taken == {pending[i].hash : i \in 1..Len(pending)}
    IN [st |-> [transactions |->
                    [s \in Senders |->
                         SelectSeq(culled.transactions[s],
                                   LAMBDA xt : xt.hash \notin taken)],
                order |-> SelectSeq(culled.order, LAMBDA h : h \notin taken)],
        pending |-> pending]

\* Pool::cull_and_get_pending: cull with a clone of the evaluator, then
\* hand the pending transactions to f.
CullAndGetPending(st, ready) ==
    LET culled == Cull(st, Senders, ReadyClone(ready))
    IN [st |-> culled, pending |-> Pending(culled, ready)]

\* ------------------------------------------------------------------- state
\* pool: the engine state of TransactionPool::inner.
\* imports_external_transactions: the flag of the TransactionPoolAdapter.
\* last: the last operation, its inputs, the chain answers it got, what it
\*       returned and the hashes it culled.
\* threads: for every thread that submits concurrently, where it is in
\*       import_unchecked_extrinsic, its arguments, the record it verified,
\*       the pool it found when it took the lock, and what it returned last.
VARIABLES pool, imports_external_transactions, last, threads

vars == <<pool, imports_external_transactions, last, threads>>

\* Number of threads that submit concurrently.
NumThreads == 2

Threads == 1..NumThreads

\* A thread outside import_unchecked_extrinsic that returned ret last.
Returned(th, ret) == [th EXCEPT !.pc = "idle", !.seen = None, !.ret = ret]

NoCall ==
    [pc |-> "idle", block |-> 0, uxt |-> None, rec |-> None, seen |-> None,
     ret |-> Ok(<<>>)]

Called(op, block, arg, api, ret, culled) ==
    [op |-> op, block |-> block, arg |-> arg, api |-> api, ret |-> ret,
     culled |-> culled]

\* TransactionPool::new, and the adapter built by a full node.
Init ==
    /\ pool = EmptyPool
    /\ imports_external_transactions = TRUE
    /\ last = Called("new", 0, <<>>, ApiOk, Ok(<<>>), {})
    /\ threads = [t \in Threads |-> NoCall]

\* TransactionPool::import_unchecked_extrinsic: the possible outcomes
\* [st, ret] of verifying and importing one extrinsic at a block.
ImportUncheckedExtrinsicOutcomes(st, block, uxt, api) ==
    IF api.check_id_fails THEN {[st |-> st, ret |-> Err("Api", <<>>)]}
    ELSE LET v == VerifyTransaction(api, block, uxt)
         IN IF ~v.ok THEN {[st |-> st, ret |-> Err(v.err, <<>>)]}
            ELSE ImportOutcomes(st, v.val)

\* A direct call of TransactionPool::import_unchecked_extrinsic.
ImportUncheckedExtrinsic(block, uxt, api) ==
    \E out \in ImportUncheckedExtrinsicOutcomes(pool, block, uxt, api) :
        /\ pool' = out.st
        /\ last' = Called("import_unchecked_extrinsic", block,
                          <<EncodeBody(uxt)>>, api, out.ret, {})
        /\ UNCHANGED <<imports_external_transactions, threads>>

\* ExtrinsicPool::submit: the elements are encoded, decoded and imported in
\* turn; collecting into a Result stops at the first failing element.
RECURSIVE SubmitOutcomes(_, _, _, _, _)
SubmitOutcomes(st, block, xts, api, hashes) ==
    IF Len(xts) = 0 THEN {[st |-> st, ret |-> Ok(hashes)]}
    ELSE LET decoded == Decode(EncodeVec(xts[1]))
         IN IF ~IsSome(decoded)
            THEN {[st |-> st, ret |-> Err("InvalidExtrinsicFormat", <<>>)]}
            ELSE UNION
                 {IF out.ret.ok
                  THEN SubmitOutcomes(out.st, block, Tail(xts), api,
                                      hashes \o out.ret.val)
                  ELSE {out}
                  : out \in ImportUncheckedExtrinsicOutcomes(
                                st, block, Unwrap(decoded), api)}

Submit(block, xts, api) ==
    \E out \in SubmitOutcomes(pool, block, xts, api, <<>>) :
        /\ pool' = out.st
        /\ last' = Called("submit", block, xts, api, out.ret, {})
        /\ UNCHANGED <<imports_external_transactions, threads>>

\* import answering None to every error of the pool.
ImportResult_NoneOnDuplicate(ret) == IF ret.ok THEN ret ELSE Err(ret.err, None)

\* The match of TransactionPoolAdapter::import on the result of the pool:
\* the hash of the imported or of the already imported transaction, or None.
ImportResult(ret) ==
    IF ret.ok THEN ret
    ELSE IF ret.err = "AlreadyImported" THEN ret
    ELSE Err(ret.err, None)

\* TransactionPoolAdapter::import: the returned Option<Hash> is ret.val.
Import(block, transaction, api) ==
    /\ UNCHANGED <<imports_external_transactions, threads>>
    /\ IF ~imports_external_transactions
       THEN /\ pool' = pool
            /\ last' = Called("import", block, <<transaction>>, api,
                              Err("Disabled", None), {})
       ELSE LET decoded == Decode(EncodeVec(transaction))
            IN IF IsSome(decoded)
               THEN \E out \in ImportUncheckedExtrinsicOutcomes(
                                   pool, block, Unwrap(decoded), api) :
                        /\ pool' = out.st
                        /\ last' = Called("import", block, <<transaction>>, api,
                                          ImportResult(out.ret), {})
               ELSE /\ pool' = pool
                    /\ last' = Called("import", block, <<transaction>>, api,
                                      Err("Decode", None), {})

\* A sweep: Pool::cull_and_get_pending with a fresh evaluator at a block, as
\* the tests call it; f collects the hashes of the pending transactions.
Sweep(op, block, api) ==
    LET ready == ReadyCreate(block, api)
        r == CullAndGetPending(pool, ready)
    IN /\ pool' = r.st
       /\ last' = Called(op, block, <<>>, api,
                         Ok([i \in 1..Len(r.pending) |-> r.pending[i].hash]),
                         ByHash(pool) \ ByHash(r.st))
       /\ UNCHANGED <<imports_external_transactions, threads>>

CullAndGetPendingCall(block, api) == Sweep("cull_and_get_pending", block, api)

\* transactions() sweeping the pool although the chain client failed.
Transactions_SweepsAnyway(best_block, api) == Sweep("transactions", best_block, api)

\* TransactionPoolAdapter::transactions: a sweep at the best block, or the
\* empty list when the chain client fails.  The encodings returned with the
\* hashes are those of AllTransactions.
Transactions(best_block, api) ==
    IF api.info_fails \/ api.check_id_fails
    THEN /\ pool' = pool
         /\ last' = Called("transactions", best_block, <<>>, api, Ok(<<>>), {})
         /\ UNCHANGED <<imports_external_transactions, threads>>
    ELSE Sweep("transactions", best_block, api)

\* Pool::remove of one transaction by hash; nothing happens if it is absent.
Remove(hash) ==
    /\ pool' = (IF \E xt \in AllTransactions(pool) : xt.hash = hash
                THEN RemoveTransaction(pool,
                         CHOOSE xt \in AllTransactions(pool) : xt.hash = hash)
                ELSE pool)
    /\ last' = Called("remove", 0, <<>>, ApiOk, Ok(<<hash>>), {})
    /\ UNCHANGED <<imports_external_transactions, threads>>

\* TransactionPool::retry_verification: its body is empty.
RetryVerification ==
    /\ pool' = pool
    /\ last' = Called("retry_verification", 0, <<>>, ApiOk, Ok(<<>>), {})
    /\ UNCHANGED <<imports_external_transactions, threads>>

\* ------------------------------------------------------------------ inputs
\* Chain answers during a submit: check_id or the lookup may fail.
FailingSubmitApis ==
    {[ApiOk EXCEPT !.check_id_fails = TRUE], [ApiOk EXCEPT !.lookup_fails = TRUE]}

\* Chain answers during a sweep: the nonce query of the first account may
\* fail for the evaluator, for its clone, or for both.
SweepApis ==
    {[ApiOk EXCEPT !.index_fails = f, !.index_fails_clone = g] :
         f \in {{}, {0}}, g \in {{}, {0}}}

\* Chain answers during transactions(): the best-block query or check_id
\* may fail.
TransactionsApis ==
    {ApiOk, [ApiOk EXCEPT !.info_fails = TRUE],
     [ApiOk EXCEPT !.check_id_fails = TRUE]}

\* Extrinsics submitted directly: every signed one, and two inherents.
SubmitExtrinsics ==
    {u \in UncheckedExtrinsics :
         IsSigned(u) \/ (u.index = 0 /\ u.signed.v = 0)}

Extrinsic(addr, index, sig) == [signed |-> addr, index |-> index, signature |-> sig]

\* Extrinsics handed to the network adapter: two nonces of the first
\* account by id, the first of them by index as well, one of the last index
\* address, and an inherent.
ProbeExtrinsics ==
    {Extrinsic(Id(0), 1, Some(0)), Extrinsic(Id(0), 2, Some(0)),
     Extrinsic(Index(0), 1, Some(0)),
     Extrinsic(Index(NumIndices - 1), 0, Some(NumAccounts - 1)),
     Extrinsic(Id(0), 0, None)}

\* Extrinsics submitted while the chain client fails.
FailExtrinsics ==
    {Extrinsic(Id(0), 1, Some(0)),
     Extrinsic(Index(NumIndices - 1), 0, Some(NumAccounts - 1)),
     Extrinsic(Id(0), 0, None)}

\* A byte string that does not decode.
Garbage == <<IdTag>>

WireInputs == {EncodeBody(u) : u \in ProbeExtrinsics} \cup {Garbage}

FailWires == {EncodeBody(Extrinsic(Id(0), 1, Some(0)))}

\* Byte strings handed to submit in batches.
BatchWires ==
    {EncodeBody(Extrinsic(Id(0), 1, Some(0))),
     EncodeBody(Extrinsic(Index(NumIndices - 1), 0, Some(NumAccounts - 1))),
     EncodeBody(Extrinsic(Id(0), 0, None)),
     Garbage}

\* Longest batch handed to submit.
MaxBatch == 2

Batches == UNION {[1..n -> BatchWires] : n \in 1..MaxBatch}

\* A hash that is removed while it is not in the pool.
AbsentHash == BlakeTwo256(Encode(Extrinsic(Id(0), 0, None)))

Next ==
    \/ \E b \in Blocks, u \in SubmitExtrinsics : ImportUncheckedExtrinsic(b, u, ApiOk)
    \/ \E b \in Blocks, u \in FailExtrinsics, a \in FailingSubmitApis :
           ImportUncheckedExtrinsic(b, u, a)
    \/ \E b \in Blocks, xts \in Batches : Submit(b, xts, ApiOk)
    \/ \E b \in Blocks, x \in WireInputs : Import(b, x, ApiOk)
    \/ \E b \in Blocks, x \in FailWires, a \in FailingSubmitApis : Import(b, x, a)
    \/ \E b \in Blocks, a \in SweepApis : CullAndGetPendingCall(b, a)
    \/ \E b \in Blocks, a \in TransactionsApis : Transactions(b, a)
    \/ \E h \in ByHash(pool) \cup {AbsentHash} : Remove(h)
    \/ RetryVerification

Spec == Init /\ [][Next]_vars

\* ------------------------------------------------------ concurrent submits
\* import_unchecked_extrinsic run by several threads.  check_id and the
\* verifier read the chain only and run outside the lock of the engine; the
\* import of the verified record runs under the write lock of the engine:
\* first the duplicate check and the capacity loops, then the insertion
\* into the sender's queue.

\* A thread enters import_unchecked_extrinsic(block, uxt).
Call(t, block, uxt) ==
    /\ threads[t].pc = "idle"
    /\ threads' = [threads EXCEPT ![t] =
           [pc |-> "verify", block |-> block, uxt |-> Some(uxt), rec |-> None,
            seen |-> None, ret |-> Ok(<<>>)]]
    /\ UNCHANGED <<pool, imports_external_transactions, last>>

\* check_id and Verifier::verify_transaction of the thread's extrinsic.
Verify(t) ==
    /\ threads[t].pc = "verify"
    /\ LET v == VerifyTransaction(ApiOk, threads[t].block, Unwrap(threads[t].uxt))
       IN threads' = [threads EXCEPT ![t] =
              IF v.ok THEN [@ EXCEPT !.pc = "import", !.rec = Some(v.val)]
              ELSE Returned(@, Err(v.err, <<>>))]
    /\ UNCHANGED <<pool, imports_external_transactions, last>>

\* No thread holds the write lock of the engine.
LockFree == \A u \in Threads : threads[u].pc # "locked"

\* A thread taking the lock although another thread holds it.
MayLock_Always(t) == TRUE

\* The thread may take the write lock of the engine.
MayLock(t) == LockFree

\* A sweep running although a thread holds the lock.
MaySweep_Always == TRUE

\* A sweep may take the write lock of the engine.
MaySweep == LockFree

\* The thread takes the lock; Pool::import turns down a resident hash and
\* makes room for the new record.
Acquire(t) ==
    /\ threads[t].pc = "import"
    /\ MayLock(t)
    /\ LET new == Unwrap(threads[t].rec)
           room == MakeRoom(pool, new)
       IN IF new.hash \in ByHash(pool)
          THEN /\ pool' = pool
               /\ threads' = [threads EXCEPT ![t] =
                      Returned(@, Err("AlreadyImported", <<new.hash>>))]
          ELSE /\ pool' = room.st
               /\ threads' = [threads EXCEPT ![t] =
                      IF room.ok THEN [@ EXCEPT !.pc = "locked", !.seen = Some(pool)]
                      ELSE Returned(@, Err("CapacityExceeded", <<>>))]
    /\ UNCHANGED <<imports_external_transactions, last>>

\* Pool::import adds the record to its sender's queue; the lock is released.
Insert(t) ==
    /\ threads[t].pc = "locked"
    /\ LET new == Unwrap(threads[t].rec)
       IN \E a \in AddOutcomes(pool.transactions[new.sender], new) :
              IF a.kind = "Ok"
              THEN /\ pool' = [transactions |->
                                  [pool.transactions EXCEPT ![new.sender] = a.q],
                               order |-> Append(pool.order, new.hash)]
                   /\ threads' = [threads EXCEPT ![t] = Returned(@, Ok(<<new.hash>>))]
              ELSE /\ pool' = pool
                   /\ threads' = [threads EXCEPT ![t] =
                          Returned(@, IF a.kind = "TooCheap"
                                      THEN Err("AlreadyImported", <<Unwrap(a.old).hash>>)
                                      ELSE Err("Panic", <<>>))]
    /\ UNCHANGED <<imports_external_transactions, last>>

\* A sweep by another thread, under the write lock of the engine.
ConcurrentSweep(block) ==
    /\ MaySweep
    /\ Sweep("cull_and_get_pending", block, ApiOk)

\* What the threads submit: a nonce of the first account by id and by index,
\* the next nonce, an extrinsic of an address unknown at its block, and an
\* inherent.
ConcurrentCalls ==
    {<<0, Extrinsic(Id(0), 1, Some(0))>>,
     <<0, Extrinsic(Index(0), 1, Some(0))>>,
     <<0, Extrinsic(Id(0), 2, Some(0))>>,
     <<MaxBlock, Extrinsic(Index(NumIndices - 1), 0, Some(NumAccounts - 1))>>,
     <<0, Extrinsic(Id(0), 0, None)>>}

NextConcurrent ==
    \/ \E t \in Threads, c \in ConcurrentCalls : Call(t, c[1], c[2])
    \/ \E t \in Threads : Verify(t)
    \/ \E t \in Threads : Acquire(t)
    \/ \E t \in Threads : Insert(t)
    \/ \E b \in Blocks : ConcurrentSweep(b)

SpecConcurrent == Init /\ [][NextConcurrent]_vars

\* ------------------------------------------------------ notions of claims
\* Positions of the resident transactions: a sender and a place in its queue.
Positions == {<<s, i>> : s \in Senders, i \in 1..MaxCount + 1}

Resident(st) == {p \in Positions : p[2] <= Len(st.transactions[p[1]])}

At(st, p) == st.transactions[p[1]][p[2]]

\* The last operation submitted one extrinsic to the pool directly.
DirectSubmit(l) == l.op = "import_unchecked_extrinsic"

\* The extrinsic handed to the last direct submit or network import.
Submitted(l) == Unwrap(Decode(EncodeVec(l.arg[1])))

SubmittedHash(l) == BlakeTwo256(EncodeVec(l.arg[1]))

\* The last operation was a sweep of the pool at block l.block.
Swept(l) ==
    \/ l.op = "cull_and_get_pending"
    \/ l.op = "transactions" /\ ~l.api.info_fails /\ ~l.api.check_id_fails

\* The resident transactions with the hashes a sweep yielded, in its order.
Yielded(st, l) ==
    [i \in 1..Len(l.ret.val) |->
        CHOOSE xt \in AllTransactions(st) : xt.hash = l.ret.val[i]]

\* The nonces of the transactions of one account among those yielded.
YieldedNonces(st, l, a) ==
    LET y == SelectSeq(Yielded(st, l), LAMBDA xt : xt.sender = Some(a))
    IN [i \in 1..Len(y) |-> TxIndex(y[i])]

\* ------------------------------------------------------------------ claims
\* C1: in every reachable pool state no two fully verified transactions of
\* the same sender have the same nonce; and when a submit is rejected as
\* already imported, the transaction it names is still in the pool.
C1_NoDuplicateNonce ==
    /\ \A p, q \in Resident(pool) :
           (/\ p # q
            /\ IsFullyVerified(At(pool, p)) /\ IsFullyVerified(At(pool, q))
            /\ At(pool, p).sender = At(pool, q).sender)
           => TxIndex(At(pool, p)) # TxIndex(At(pool, q))
    /\ (last.op \in {"import_unchecked_extrinsic", "submit", "import"}
        /\ last.ret.err = "AlreadyImported")
           => last.ret.val[1] \in ByHash(pool)

\* A fully verified extrinsic was rejected because a different resident
\* transaction has its sender and nonce.
C1_Witness ==
    /\ DirectSubmit(last) /\ last.ret.err = "AlreadyImported"
    /\ last.ret.val[1] # SubmittedHash(last)
    /\ \E xt \in AllTransactions(pool) :
           /\ xt.hash = last.ret.val[1] /\ IsFullyVerified(xt)
           /\ TxIndex(xt) = Submitted(last).index
           /\ ChainLookup(last.block, Submitted(last).signed) = xt.sender

\* C2: in every reachable pool state no two resident transactions have the
\* same hash, nor the same content, whose hash it is.
C2_UniqueHash ==
    \A p, q \in Resident(pool) :
        p # q => /\ At(pool, p).hash # At(pool, q).hash
                 /\ BlakeTwo256(Encode(At(pool, p).original))
                        # BlakeTwo256(Encode(At(pool, q).original))

\* An extrinsic whose hash is resident was submitted again and turned down.
C2_Witness ==
    /\ DirectSubmit(last) /\ last.ret.err = "AlreadyImported"
    /\ last.ret.val[1] = SubmittedHash(last)
    /\ Cardinality({p \in Resident(pool) : At(pool, p).hash = SubmittedHash(last)}) = 1

RECURSIVE EncodedBytes(_, _)
EncodedBytes(st, ps) ==
    IF ps = {} THEN 0
    ELSE LET p == CHOOSE x \in ps : TRUE
         IN At(st, p).encoded_size + EncodedBytes(st, ps \ {p})

\* C3: in every reachable pool state there are at most max_count
\* transactions and their encoded sizes add up to at most max_bytes.
C3_Capacity ==
    /\ Cardinality(Resident(pool)) <= MaxCount
    /\ EncodedBytes(pool, Resident(pool)) <= MaxBytes
    /\ \A p \in Resident(pool) :
           At(pool, p).encoded_size = Len(Encode(At(pool, p).original))

\* A submit succeeded into a pool that is now full in count and in bytes
\* and holds a partial and a fully verified transaction.
C3_Witness ==
    /\ DirectSubmit(last) /\ last.ret.ok
    /\ Cardinality(Resident(pool)) = MaxCount
    /\ EncodedBytes(pool, Resident(pool)) = MaxBytes
    /\ \E p, q \in Resident(pool) :
           IsFullyVerified(At(pool, p)) /\ ~IsFullyVerified(At(pool, q))

C5_StaleCulled ==
    Swept(last) =>
        /\ \A xt \in AllTransactions(pool) :
               IsSome(xt.sender) =>
                   TxIndex(xt) >= ChainIndex(last.block, Unwrap(xt.sender))
        /\ \A i \in 1..Len(last.ret.val) :
               last.ret.val[i] \in ByHash(pool) \ last.culled

\* A sweep culled a transaction.
C5_Witness == Swept(last) /\ last.api = ApiOk /\ last.culled # {}

\* C6: a sweep at block B, the chain answering every query, leaves in the
\* pool every partial transaction and every transaction whose nonce is at
\* least chain.index(B, sender).
C6_OnlyStaleRemoved ==
    [][(Swept(last') /\ last'.api = ApiOk) =>
          \A xt \in AllTransactions(pool) :
              (\/ ~IsSome(xt.sender)
               \/ TxIndex(xt) >= ChainIndex(last'.block, Unwrap(xt.sender)))
              => xt \in AllTransactions(pool')]_vars

\* The nonces of the resident transactions of an account.
NoncesOf(st, a) ==
    {TxIndex(st.transactions[Some(a)][i]) : i \in 1..Len(st.transactions[Some(a)])}

\* C7: for an account whose expected nonce at block B is N, a sweep at B of
\* a pool holding only nonce N + 1 of the account yields none of it and
\* leaves it in the pool, and a sweep at B of a pool holding nonces N and
\* N + 1 of the account yields N and then N + 1.
C7_LateNonceQueued ==
    [][(Swept(last') /\ last'.api = ApiOk) =>
          \A a \in Accounts :
              LET N == ChainIndex(last'.block, a)
              IN /\ NoncesOf(pool, a) = {N + 1} =>
                        /\ YieldedNonces(pool', last', a) = <<>>
                        /\ pool'.transactions[Some(a)] = pool.transactions[Some(a)]
                 /\ (NoncesOf(pool, a) = {N, N + 1} /\ N + 1 <= MaxIndex) =>
                        YieldedNonces(pool', last', a) = <<N, N + 1>>]_vars

\* A sweep yielded the expected nonce of an account and the next one.
C7_Witness ==
    /\ Swept(last) /\ last.api = ApiOk
    /\ \E a \in Accounts :
           YieldedNonces(pool, last, a)
               = <<ChainIndex(last.block, a), ChainIndex(last.block, a) + 1>>

\* C8: with external imports enabled, importing the same bytes at the same
\* block a second time, the chain answering every query, leaves the pool
\* as the first import left it and returns what the first returned.
C8_ImportIdempotent ==
    [][(/\ imports_external_transactions
        /\ last.op = "import" /\ last'.op = "import"
        /\ last'.arg = last.arg /\ last'.block = last.block
        /\ last.api = ApiOk /\ last'.api = ApiOk)
       => /\ pool' = pool
          /\ last'.ret.val = last.ret.val
          /\ last.ret.val # None => last'.ret.err = "AlreadyImported"]_vars

\* An import of bytes whose transaction is resident returned its hash.
C8_Witness ==
    /\ last.op = "import" /\ last.api = ApiOk
    /\ last.ret.err = "AlreadyImported"
    /\ last.ret.val = Some(SubmittedHash(last))
    /\ SubmittedHash(last) \in ByHash(pool)

\* C9: every resident transaction is signed, and a submit of an unsigned
\* extrinsic fails with IsInherent whatever the chain lookup would answer.
C9_NoInherent ==
    /\ \A xt \in AllTransactions(pool) : IsSigned(xt.original)
    /\ (/\ last.op \in {"import_unchecked_extrinsic", "import"}
        /\ ~last.api.check_id_fails
        /\ IsSome(Decode(EncodeVec(last.arg[1])))
        /\ ~IsSigned(Submitted(last)))
           => ~last.ret.ok /\ last.ret.err = "IsInherent"

\* An unsigned extrinsic was turned down while the chain lookup was failing
\* and the pool held transactions.
C9_Witness ==
    /\ DirectSubmit(last) /\ last.api.lookup_fails
    /\ ~IsSigned(Submitted(last))
    /\ last.ret.err = "IsInherent"
    /\ AllTransactions(pool) # {}

\* The last direct submit handed a signed extrinsic to the verifier.
VerifiedSigned(l) ==
    DirectSubmit(l) /\ ~l.api.check_id_fails /\ IsSigned(Submitted(l))

\* The chain knew no account for the address of the last direct submit.
NoAccountFound(l) ==
    ~l.api.lookup_fails /\ ChainLookup(l.block, Submitted(l).signed) = None

\* The lookup of the last direct submit failed, or the signature is not one
\* of the account found.
VerificationFails(l) ==
    \/ l.api.lookup_fails
    \/ /\ ChainLookup(l.block, Submitted(l).signed) # None
       /\ Submitted(l).signature # ChainLookup(l.block, Submitted(l).signed)

\* The submitted extrinsic is resident as a partial transaction.
StoredPartial(st, l) ==
    \E xt \in AllTransactions(st) :
        /\ xt.hash = SubmittedHash(l) /\ xt.original = Submitted(l)
        /\ xt.sender = None /\ xt.inner = None

SenderIffChecked ==
    \A xt \in AllTransactions(pool) : IsSome(xt.sender) <=> IsSome(xt.inner)

\* C10 as stated: when the chain knows no account for the address of a
\* signed extrinsic, the submit succeeds and stores a partial transaction;
\* any other lookup or signature failure fails the submit and leaves the
\* pool as it was; every resident has a sender iff it has a checked form.
C10_NoAccountSucceeds ==
    /\ []SenderIffChecked
    /\ [][VerifiedSigned(last') =>
             /\ NoAccountFound(last') =>
                    last'.ret.ok /\ StoredPartial(pool', last')
             /\ VerificationFails(last') => ~last'.ret.ok /\ pool' = pool]_vars

\* C10 amended: when the chain knows no account, the verification does not
\* fail: the submit stores a partial transaction unless the engine turns it
\* down as already imported or for lack of capacity.
C10_NoAccountIsNoError ==
    /\ []SenderIffChecked
    /\ [][VerifiedSigned(last') =>
             /\ NoAccountFound(last') =>
                    \/ last'.ret.ok /\ StoredPartial(pool', last')
                    \/ /\ ~last'.ret.ok
                       /\ last'.ret.err \in {"AlreadyImported", "CapacityExceeded"}
             /\ VerificationFails(last') => ~last'.ret.ok /\ pool' = pool]_vars

\* A signed extrinsic of an unknown account was stored as a partial
\* transaction.
C10_Witness ==
    /\ VerifiedSigned(last) /\ NoAccountFound(last)
    /\ last.ret.ok /\ StoredPartial(pool, last)

\* The evaluators a sweep may hold when it meets a transaction: fresh or
\* with a cached nonce, the nonce query failing or not.
Evaluators ==
    {ReadyCreate(b, api) : b \in Blocks, api \in SweepApis}
    \cup {WithNextIndex(ReadyCreate(b, api), a, n) :
              b \in Blocks, api \in SweepApis, a \in Accounts, n \in Nonces}

\* is_ready answers Future for every resident partial transaction and
\* returns the evaluator as it was, whatever the chain would answer.
PartialIsFuture ==
    \A xt \in AllTransactions(pool) :
        ~IsSome(xt.sender) =>
            \A ready \in Evaluators :
                IsReady(ready, xt) = [result |-> "Future", ready |-> ready]

\* C11: a partial transaction is judged Future with the evaluator left as
\* it was, and every sweep, at any block and whatever the chain answers,
\* leaves the partial transactions in the pool and yields none of them.
C11_PartialNeverReady ==
    /\ []PartialIsFuture
    /\ [][Swept(last') =>
             \A xt \in AllTransactions(pool) :
                 ~IsSome(xt.sender) =>
                     /\ xt \in AllTransactions(pool')
                     /\ xt.hash \notin Range(last'.ret.val)]_vars

\* A sweep yielded a transaction and kept a partial one, at a block where
\* the address of the partial one resolves to an account.
C11_Witness ==
    /\ Swept(last) /\ last.ret.val # <<>>
    /\ \E xt \in AllTransactions(pool) :
           /\ ~IsSome(xt.sender)
           /\ ChainLookup(last.block, xt.original.signed) # None

\* C12: in a sweep during which the nonce query of an account fails, every
\* transaction of that account stays in the pool and none is yielded.
C12_IndexFailureFuture ==
    [][Swept(last') =>
          \A a \in last'.api.index_fails \cap last'.api.index_fails_clone :
              \A xt \in AllTransactions(pool) :
                  xt.sender = Some(a) =>
                      /\ xt \in AllTransactions(pool')
                      /\ xt.hash \notin Range(last'.ret.val)]_vars

\* A batch whose elements are each imported on their own, one after the
\* other, a failing element leaving the pool to the next: the possible
\* outcomes [st, rets], rets holding the result of every element.
RECURSIVE EachOnItsOwn(_, _, _, _, _)
EachOnItsOwn(st, block, xts, api, rets) ==
    IF Len(xts) = 0 THEN {[st |-> st, rets |-> rets]}
    ELSE LET decoded == Decode(EncodeVec(xts[1]))
         IN IF ~IsSome(decoded)
            THEN EachOnItsOwn(st, block, Tail(xts), api,
                     Append(rets, Err("InvalidExtrinsicFormat", <<>>)))
            ELSE UNION
                 {EachOnItsOwn(out.st, block, Tail(xts), api, Append(rets, out.ret))
                  : out \in ImportUncheckedExtrinsicOutcomes(
                                st, block, Unwrap(decoded), api)}

\* The hashes a submit reported as imported.
Reported(ret) == IF ret.ok THEN Range(ret.val) ELSE {}

\* C13: a submit of a batch leaves the pool as importing every element on
\* its own would, the failing elements apart, and reports the hash of every
\* element that succeeded.
C13_BatchIndependent ==
    [][last'.op = "submit" =>
          \E o \in EachOnItsOwn(pool, last'.block, last'.arg, last'.api, <<>>) :
              /\ pool' = o.st
              /\ \A i \in 1..Len(o.rets) :
                     o.rets[i].ok => o.rets[i].val[1] \in Reported(last'.ret)]_vars

\* The last operation handed one item to the pool.
SingleItem(l) == l.op \in {"import_unchecked_extrinsic", "import"}

\* C14: an item whose submit fails leaves the set of resident transactions
\* as it was, and hash uniqueness, nonce uniqueness and the capacity bounds
\* hold afterwards.
C14_FailedItemAtomic ==
    /\ [](C1_NoDuplicateNonce /\ C2_UniqueHash /\ C3_Capacity)
    /\ [][(SingleItem(last') /\ ~last'.ret.ok) =>
             AllTransactions(pool') = AllTransactions(pool)]_vars

\* C15: an import with external imports disabled returns none and leaves
\* the pool as it was; so does an import of bytes that do not decode, and
\* one whose submit fails with an error other than AlreadyImported.
C15_ImportReturnsNone ==
    [][last'.op = "import" =>
          /\ ~imports_external_transactions =>
                 last'.ret.val = None /\ pool' = pool
          /\ (\/ ~IsSome(Decode(EncodeVec(last'.arg[1])))
              \/ ~last'.ret.ok /\ last'.ret.err # "AlreadyImported") =>
                 last'.ret.val = None /\ pool' = pool]_vars

\* The length of the longest head of a queue whose nonces are n, n + 1, ...
RECURSIVE ReadyRun(_, _, _)
ReadyRun(q, k, n) ==
    IF k < Len(q) /\ TxIndex(q[k + 1]) = n THEN ReadyRun(q, k + 1, n + 1) ELSE k

\* The hashes of the transactions a sweep at a block judges Ready: for
\* every account, the head of its queue that continues the chain's nonce.
JudgedReady(st, block) ==
    UNION {{st.transactions[Some(a)][i].hash :
                i \in 1..ReadyRun(st.transactions[Some(a)], 0, ChainIndex(block, a))}
           : a \in Accounts}

\* C16: transactions() returns the empty list and leaves the pool as it was
\* when the best-block query or check_id fails; otherwise it returns, once
\* each, the hashes of the transactions the sweep at the best block judges
\* Ready, which are the hashes of their encodings.
C16_TransactionsBestEffort ==
    [][last'.op = "transactions" =>
          IF last'.api.info_fails \/ last'.api.check_id_fails
          THEN last'.ret.val = <<>> /\ pool' = pool /\ last'.culled = {}
          ELSE /\ Range(last'.ret.val) = JudgedReady(pool', last'.block)
               /\ Len(last'.ret.val) = Cardinality(Range(last'.ret.val))
               /\ \A xt \in AllTransactions(pool') :
                      xt.hash \in Range(last'.ret.val) =>
                          xt.hash = BlakeTwo256(Encode(xt.original))]_vars

\* transactions() returned nothing because a chain call failed, while a
\* sweep at that block would have culled a transaction and yielded another.
C16_Witness ==
    /\ last.op = "transactions"
    /\ last.api.info_fails \/ last.api.check_id_fails
    /\ last.ret.val = <<>>
    /\ LET r == CullAndGetPending(pool, ReadyCreate(last.block, ApiOk))
       IN r.st # pool /\ r.pending # <<>>

\* The record the verifier made of the extrinsic of a direct submit.
NewRecord(l) == VerifyTransaction(l.api, l.block, Submitted(l))

\* A direct submit brought a new verified record to a pool without room
\* for it.
AtCapacity(st, l) ==
    /\ DirectSubmit(l) /\ ~l.api.check_id_fails
    /\ NewRecord(l).ok
    /\ NewRecord(l).val.hash \notin ByHash(st)
    /\ \/ PoolCount(st) + 1 > MaxCount
       \/ PoolMemUsage(st) + MemUsage(NewRecord(l).val) > MaxBytes

\* C17 as stated: when the pool is at capacity and the score of the new
\* record does not exceed the lowest score of a resident, the submit fails
\* with CapacityExceeded and the pool is as it was.
C17_NoRoomRejects ==
    [][(/\ AtCapacity(pool, last')
        /\ \A xt \in AllTransactions(pool) : Score(NewRecord(last').val) <= Score(xt))
       => last'.ret.err = "CapacityExceeded" /\ pool' = pool]_vars

\* C17 amended: when the pool is at capacity and every resident is fully
\* verified, the submit fails with CapacityExceeded and the pool is as it
\* was; when a partial transaction is resident, the newest partial one is
\* evicted, also for a new partial record.
C17_FullPoolRejects ==
    [][AtCapacity(pool, last') =>
          IF \A xt \in AllTransactions(pool) : IsFullyVerified(xt)
          THEN last'.ret.err = "CapacityExceeded" /\ pool' = pool
          ELSE LET q == pool.transactions[None]
               IN /\ q[Len(q)] \notin AllTransactions(pool')
                  /\ ~IsFullyVerified(q[Len(q)])]_vars

\* A partial record was turned down by a pool full of fully verified
\* transactions.
C17_Witness ==
    /\ DirectSubmit(last) /\ last.ret.err = "CapacityExceeded"
    /\ ~IsFullyVerified(NewRecord(last).val)
    /\ PoolCount(pool) = MaxCount
    /\ \A xt \in AllTransactions(pool) : IsFullyVerified(xt)

\* The address and the signature of a partial transaction verify at a block.
Resolvable(xt, block) ==
    /\ ~IsSome(xt.sender)
    /\ VerifyTransaction(ApiOk, block, xt.original).ok
    /\ IsFullyVerified(VerifyTransaction(ApiOk, block, xt.original).val)

\* C20: retry_verification turns every partial transaction whose address
\* resolves at the current block into a fully verified one with its sender
\* set.
C20_RetryPromotes ==
    [][last'.op = "retry_verification" =>
          \A xt \in AllTransactions(pool) :
              Resolvable(xt, last'.block) =>
                  \E yt \in AllTransactions(pool') :
                      /\ yt.hash = xt.hash
                      /\ IsFullyVerified(yt) /\ IsSome(yt.sender)]_vars

\* The pool on which the submit of a returning thread took effect: the one
\* it found when it took the lock, or the present one if it never held it.
EffectPool(t) ==
    IF threads[t].pc = "locked" THEN Unwrap(threads[t].seen) ELSE pool

IdForm(xt) ==
    IF IsSome(xt.sender)
    THEN Verified(Extrinsic(Id(Unwrap(xt.sender)), xt.original.index,
                            xt.original.signature), xt.inner)
    ELSE xt

\* The pool with every fully verified transaction replaced by its id form.
AsIds(st) ==
    [transactions |->
         [s \in Senders |->
              [i \in 1..Len(st.transactions[s]) |-> IdForm(st.transactions[s][i])]],
     order |->
         [i \in 1..Len(st.order) |->
              IdForm(CHOOSE xt \in AllTransactions(st) : xt.hash = st.order[i]).hash]]

\* The last direct submit carried an index address that the chain resolves
\* to account a at the submit block, signed by a.
IndexSubmitOf(l, a) ==
    /\ VerifiedSigned(l) /\ ~l.api.lookup_fails
    /\ Submitted(l).signed.tag = "Index"
    /\ ChainLookup(l.block, Submitted(l).signed) = Some(a)
    /\ Submitted(l).signature = Some(a)

\* The chain answers the nonce query of account a during the sweep.
IndexKnown(l, a) == a \notin l.api.index_fails \cup l.api.index_fails_clone

MixedForms(st, a) ==
    LET q == st.transactions[Some(a)]
    IN /\ Len(q) = 2
       /\ TxIndex(q[1]) = ChainIndex(0, a)
       /\ TxIndex(q[2]) = ChainIndex(0, a) + 1
       /\ q[1].original.signed.tag # q[2].original.signed.tag
       /\ \A i \in 1..2 : ChainLookup(0, q[i].original.signed) = Some(a)
       /\ InsertionRank(st, q[1].hash) < InsertionRank(st, q[2].hash)

\* C22: when a sender whose expected nonce at block 0 is N has submitted N
\* with one addressing form and then N + 1 with the other, a sweep at
\* block 0 yields the transaction of nonce N and not the one of nonce N + 1.
C22_MixedFormsYieldFirst ==
    [][(Swept(last') /\ last'.api = ApiOk /\ last'.block = 0) =>
          \A a \in Accounts :
              MixedForms(pool, a) =>
                  YieldedNonces(pool', last', a) = <<ChainIndex(0, a)>>]_vars

\* The fully verified transactions resident in a pool.
FullyVerifiedIn(st) == {xt \in AllTransactions(st) : IsFullyVerified(xt)}

\* should_replace lets a resident be evicted exactly when it is partial,
\* whatever the new record, and the scores are 0 for partial and 1 for
\* fully verified transactions.
PartialReplaceable ==
    \A old \in AllTransactions(pool) :
        /\ Score(old) = (IF IsFullyVerified(old) THEN 1 ELSE 0)
        /\ \A new \in AllTransactions(pool) :
               ShouldReplace(old, new) <=> ~IsFullyVerified(old)

\* C23: eviction for capacity removes partial transactions only:
\* should_replace holds exactly for a partial resident, the scores are 0
\* and 1, a submit to a full pool evicts a partial transaction if one is
\* resident, and a fully verified transaction leaves the pool only by an
\* explicit removal or by the cull of a sweep, never in a submit.
C23_OnlyPartialEvicted ==
    /\ []PartialReplaceable
    /\ [][/\ (AtCapacity(pool, last') /\ pool.transactions[None] # <<>>) =>
                 \E xt \in AllTransactions(pool) :
                     ~IsFullyVerified(xt) /\ xt.hash \notin ByHash(pool')
          /\ \A xt \in FullyVerifiedIn(pool) :
                 xt.hash \notin ByHash(pool') =>
                     \/ last'.op = "remove" /\ last'.ret.val = <<xt.hash>>
                     \/ Swept(last') /\ xt.hash \in last'.culled]_vars

\* A batch was submitted to a pool holding a fully verified transaction:
\* its first element, a partial transaction, filled the pool and was
\* evicted for its second, and the fully verified residents stayed.
C23_Witness ==
    /\ last.op = "submit" /\ last.ret.ok
    /\ \E h \in Range(last.ret.val) : h \notin ByHash(pool)
    /\ PoolCount(pool) = MaxCount
    /\ FullyVerifiedIn(pool) = AllTransactions(pool)

\* The pairs of positions of one queue that hold the same nonce.
NonceCollisions(st) ==
    {<<p, q>> \in Resident(st) \X Resident(st) :
         /\ p[1] = q[1] /\ p[2] < q[2]
         /\ TxIndex(At(st, p)) = TxIndex(At(st, q))}

\* A direct submit brought a new partial record, of a nonce that a resident
\* partial transaction has, to a pool with room for it.
PartialCollides(st, l) ==
    /\ DirectSubmit(l) /\ ~l.api.check_id_fails
    /\ NewRecord(l).ok /\ ~IsFullyVerified(NewRecord(l).val)
    /\ NewRecord(l).val.hash \notin ByHash(st)
    /\ ~AtCapacity(st, l)
    /\ \E xt \in Range(st.transactions[None]) :
           TxIndex(xt) = TxIndex(NewRecord(l).val)

\* C24: against a partial resident choose always answers InsertNew; a new
\* partial record with the nonce of a resident partial transaction and
\* another hash is inserted and both are kept; transactions sharing a nonce
\* in one queue are partial ones with different hashes, never fully
\* verified transactions of one sender.
C24_PartialsCollide ==
    /\ [](/\ \A old \in Range(pool.transactions[None]) :
                 \A new \in AllTransactions(pool) : Choose(old, new) = "InsertNew"
          /\ \A c \in NonceCollisions(pool) :
                 /\ c[1][1] = None
                 /\ ~IsFullyVerified(At(pool, c[1]))
                 /\ ~IsFullyVerified(At(pool, c[2]))
                 /\ At(pool, c[1]).hash # At(pool, c[2]).hash)
    /\ [][PartialCollides(pool, last') =>
             /\ last'.ret.ok
             /\ Range(pool'.transactions[None])
                    = Range(pool.transactions[None]) \cup {NewRecord(last').val}
             /\ Len(pool'.transactions[None]) = Len(pool.transactions[None]) + 1]_vars

\* A partial record was submitted with the nonce of a resident partial
\* transaction, and both are in the pool.
C24_Witness ==
    /\ DirectSubmit(last) /\ last.ret.ok
    /\ ~IsFullyVerified(NewRecord(last).val)
    /\ NewRecord(last).val \in Range(pool.transactions[None])
    /\ NonceCollisions(pool) # {}

\* Every queue holds the transactions of its own sender only, and a
\* transaction has a sender exactly when it is fully verified.
KeyedBySender ==
    \A p \in Resident(pool) :
        /\ At(pool, p).sender = p[1]
        /\ IsSome(At(pool, p).sender) <=> IsFullyVerified(At(pool, p))

\* The records that verify_transaction may hand to the engine.
VerifiedRecords ==
    {VerifyTransaction(ApiOk, x[1], x[2]).val :
         x \in {y \in Blocks \X SubmitExtrinsics :
                    VerifyTransaction(ApiOk, y[1], y[2]).ok}}

\* C25: the assertion of choose fails in no reachable state: the queues are
\* keyed by sender, a sender is present exactly for fully verified
\* transactions, so whatever record is submitted next, choose meets no
\* fully verified old transaction with a partial new one in the queue of
\* the new one, and no call has ended in the panic of the assertion.
C25_AssertHolds ==
    /\ KeyedBySender
    /\ last.ret.err # "Panic"
    /\ \A new \in VerifiedRecords :
           \A old \in Range(pool.transactions[new.sender]) :
               /\ Choose(old, new) # "AssertFailed"
               /\ IsFullyVerified(old) => IsFullyVerified(new)

\* choose was called with a fully verified old transaction: the last submit
\* inserted a fully verified record before a resident one of its sender.
C25_Witness ==
    /\ DirectSubmit(last) /\ last.ret.ok
    /\ IsFullyVerified(NewRecord(last).val)
    /\ LET q == pool.transactions[NewRecord(last).val.sender]
       IN /\ Len(q) = 2
          /\ q[1] = NewRecord(last).val
          /\ IsFullyVerified(q[2])

\* What a sweep of the pool as it is, at the block and with the chain
\* answers of the last operation, would leave and yield.
SweptAgain ==
    CullAndGetPending(pool, ReadyCreate(last.block, last.api))

====
